---- MODULE Spec2Model ----
(***************************************************************************)
(* Model of layers_visibility.py, a GIMP plug-in that steps through the    *)
(* "#<number>#..." group layers of an image: the label parser, the         *)
(* adjacency resolver, the member lookup, the visibility updater and the   *)
(* step controller with its two menu entry points.                         *)
(*                                                                         *)
(* Python values are modelled as follows.                                  *)
(*   str            a sequence of one-character strings                    *)
(*   int or None    <<v>> for the integer v, <<>> for None                 *)
(*   list           a sequence                                             *)
(*   dict           a sequence of <<key, value>> pairs with unique keys,   *)
(*                  in order of first insertion                            *)
(*   raise          the "raised" field of an operation's result            *)
(***************************************************************************)
EXTENDS Integers, Sequences, FiniteSets, TLC

VARIABLES
    layers,       \* image.layers: the top-level items, top to bottom
    text,         \* text layer ID -> its text (gimp_text_layer_get/set_text)
    visible,      \* item ID -> item.visible
    opacity,      \* layer ID -> gimp_layer_set_opacity value
    fill,         \* layer ID -> colour of the last gimp_drawable_fill
    foreground,   \* the context's foreground colour
    raised,       \* exception that ended the last operation, "" for none
    hist,         \* the last operations, each with the state it started from
    twin,         \* a second copy of the same image with its own history
    run,          \* <<n>>: a menu entry completed n times in a row; <<>>: not counted
    labels,       \* adjacent_label: argument labels
    current_step, \* adjacent_label: argument current_step
    direction,    \* adjacent_label: argument direction
    returned      \* adjacent_label: <<value>> once it has returned

imageVars == <<text, visible, opacity, fill, foreground>>
callVars  == <<labels, current_step, direction, returned>>
vars == <<layers, text, visible, opacity, fill, foreground, raised, hist,
          twin, run, labels, current_step, direction, returned>>

----------------------------------------------------------------------------
\* Bounds of the model

\* step groups carry the labels 10, 20, ..., 10 * MaxLabel
MaxLabel == 4
\* longest list handed to adjacent_label on its own
MaxLen == 3
\* number of calls of update_visibility on its own
MaxCalls == 2

----------------------------------------------------------------------------
\* Program constants

TOPMOST_OPACITY == 100
FADING_COLORS == <<"#A0A0A0", "#FF0000", "#00FF00", "#0000FF">>

----------------------------------------------------------------------------
\* Strings and integers

Digits == <<"0", "1", "2", "3", "4", "5", "6", "7", "8", "9">>

IsDigit(c) == \E d \in 1..10 : Digits[d] = c

DigitVal(c) == (CHOOSE d \in 1..10 : Digits[d] = c) - 1

\* str(n) of an integer
RECURSIVE Dec(_)
Dec(n) == IF n < 10 THEN <<Digits[n + 1]>>
          ELSE Dec(n \div 10) \o <<Digits[(n % 10) + 1]>>

str(n) == IF n < 0 THEN <<"-">> \o Dec(0 - n) ELSE Dec(n)

\* s.strip() as int() applies it to its argument
RECURSIVE lstrip(_)
lstrip(s) == IF s # <<>> /\ Head(s) = " " THEN lstrip(Tail(s)) ELSE s

RECURSIVE rstrip(_)
rstrip(s) == IF s # <<>> /\ s[Len(s)] = " "
             THEN rstrip(SubSeq(s, 1, Len(s) - 1)) ELSE s

RECURSIVE DigitsValue(_)
DigitsValue(s) == IF s = <<>> THEN 0
                  ELSE 10 * DigitsValue(SubSeq(s, 1, Len(s) - 1))
                       + DigitVal(s[Len(s)])

\* int(s) of a string: <<v>>, or <<>> when int raises ValueError
int(s) ==
    LET t      == rstrip(lstrip(s))
        signed == t # <<>> /\ Head(t) \in {"+", "-"}
        body   == IF signed THEN Tail(t) ELSE t
    IN  IF body = <<>> \/ \E i \in 1..Len(body) : ~IsDigit(body[i])
        THEN <<>>
        ELSE IF signed /\ Head(t) = "-" THEN <<0 - DigitsValue(body)>>
             ELSE <<DigitsValue(body)>>

startswith(name, prefix) ==
    /\ Len(name) >= Len(prefix)
    /\ SubSeq(name, 1, Len(prefix)) = prefix

----------------------------------------------------------------------------
\* adjacent_label

RECURSIVE Insert(_, _)
Insert(x, s) == IF s = <<>> THEN <<x>>
                ELSE IF x <= Head(s) THEN <<x>> \o s
                ELSE <<Head(s)>> \o Insert(x, Tail(s))

\* the mutant: leaves the list in the order it came in
sorted_asis(s) == s

RECURSIVE sorted(_)
sorted(s) == IF s = <<>> THEN <<>> ELSE Insert(Head(s), sorted(Tail(s)))

reversed(s) == [i \in 1..Len(s) |-> s[Len(s) + 1 - i]]

\* the mutant: accepts a label equal to the reference
RECURSIVE FirstLarger_ge(_, _)
FirstLarger_ge(s, x) == IF s = <<>> THEN <<>>
                        ELSE IF Head(s) >= x THEN <<Head(s)>>
                        ELSE FirstLarger_ge(Tail(s), x)

\* for label in s: if label > x: return label
RECURSIVE FirstLarger(_, _)
FirstLarger(s, x) == IF s = <<>> THEN <<>>
                     ELSE IF Head(s) > x THEN <<Head(s)>>
                     ELSE FirstLarger(Tail(s), x)

\* the mutant: accepts a label equal to the reference
RECURSIVE FirstSmaller_le(_, _)
FirstSmaller_le(s, x) == IF s = <<>> THEN <<>>
                         ELSE IF Head(s) <= x THEN <<Head(s)>>
                         ELSE FirstSmaller_le(Tail(s), x)

\* for label in s: if label < x: return label
RECURSIVE FirstSmaller(_, _)
FirstSmaller(s, x) == IF s = <<>> THEN <<>>
                      ELSE IF Head(s) < x THEN <<Head(s)>>
                      ELSE FirstSmaller(Tail(s), x)

\* the mutant: wraps around to the other end instead of saturating
adjacent_label_wrap(ls, step, dir) ==
    LET sorted_labels == sorted(ls)
        found == IF dir THEN FirstLarger(sorted_labels, step)
                 ELSE FirstSmaller(reversed(sorted_labels), step)
    IN  IF found # <<>> THEN found
        ELSE IF sorted_labels = <<>> THEN <<>>
        ELSE IF dir THEN <<sorted_labels[1]>>
        ELSE <<sorted_labels[Len(sorted_labels)]>>

\* the mutant: answers 0 for the empty list instead of raising
adjacent_label_zero(ls, step, dir) ==
    LET sorted_labels == sorted(ls)
        found == IF dir THEN FirstLarger(sorted_labels, step)
                 ELSE FirstSmaller(reversed(sorted_labels), step)
    IN  IF found # <<>> THEN found
        ELSE IF sorted_labels = <<>> THEN <<0>>
        ELSE IF dir THEN <<sorted_labels[Len(sorted_labels)]>>
        ELSE <<sorted_labels[1]>>

\* <<label>> returned, or <<>> when indexing the empty list raises IndexError
adjacent_label(ls, step, dir) ==
    LET sorted_labels == sorted(ls)
        found == IF dir THEN FirstLarger(sorted_labels, step)
                 ELSE FirstSmaller(reversed(sorted_labels), step)
    IN  IF found # <<>> THEN found
        ELSE IF sorted_labels = <<>> THEN <<>>
        ELSE IF dir THEN <<sorted_labels[Len(sorted_labels)]>>
        ELSE <<sorted_labels[1]>>

----------------------------------------------------------------------------
\* The image: its layer tree

STEP  == <<"s", "t", "e", "p">>
HINT  == <<"h", "i", "n", "t">>
COLOR == <<"c", "o", "l", "o", "r">>

\* the text gimp_text_layer_get_text returns for a layer that holds markup
\* instead of plain text: Python's None (see the note at the head of the file)
NoneText == <<"None">>

Labels == {10 * k : k \in 1..MaxLabel}

\* values of the step argument and of the step marker: every label, values
\* below, between and above the labels, and a negative one
StepValues == Labels \cup {0 - 5, 15, 10 * MaxLabel + 5}

GoodTexts == {str(v) : v \in StepValues} \cup {<<" ", "2", "0">>}
BadTexts  == {<<>>, <<"2", "x">>, NoneText}

\* how the designated marker is present in the image
Markers == [kind : {"text"}, text : GoodTexts \cup BadTexts]
           \cup {[kind |-> "absent", text |-> <<>>],
                 [kind |-> "layer", text |-> <<>>]}

\* what else the image holds (variant) and which member layers its step
\* groups have (members)
Shapes == {[variant |-> "plain", members |-> "full"],
           [variant |-> "junk",  members |-> "mixed"],
           [variant |-> "dup",   members |-> "full"]}

\* the layer state a user left behind: the groups' visibility and opacity
\* and the member layers' visibility
Presets == {[v0 |-> v, o0 |-> IF f THEN 50 ELSE 100, h0 |-> f]
            : v \in BOOLEAN, f \in BOOLEAN}

Max(S) == CHOOSE m \in S : \A x \in S : x <= m
Min(S) == CHOOSE m \in S : \A x \in S : m <= x

RECURSIVE Descending(_)
Descending(S) == IF S = {} THEN <<>>
                 ELSE <<Max(S)>> \o Descending(S \ {Max(S)})

Proto(kind, name, kids) == [kind |-> kind, name |-> name, kids |-> kids]

\* the member layers of the step group with the given label
MemberNames(label, members) ==
    IF members = "full" THEN <<HINT, COLOR>>
    ELSE IF (label \div 10) % 3 = 1 THEN <<<<"a", "r", "t">>>>
    ELSE IF (label \div 10) % 3 = 2
         THEN <<<<"a", "r", "t">>, HINT, HINT \o <<"2">>>>
    ELSE <<COLOR \o <<"1">>>>

StepGroup(label, members) ==
    Proto("group", <<"#">> \o str(label) \o <<"#", "s">>,
          MemberNames(label, members))

\* top-level items that are no step groups (junk), or a second group with
\* the largest label, written with blanks around the number (dup)
Extras(S, variant, members) ==
    IF variant = "junk"
    THEN << Proto("layer", <<"#", "1", "0", "#", "x">>, <<>>),
            Proto("group", <<"#", "x", "#">>, <<HINT, COLOR>>),
            Proto("group", <<"#", "2", "0">>, <<HINT, COLOR>>),
            Proto("group", <<"b", "g">>, <<>>) >>
    ELSE IF variant = "dup" /\ S # {}
    THEN << Proto("group",
                  <<"#", " ">> \o str(Max(S)) \o <<" ", "#", "d">>,
                  <<HINT, COLOR>>) >>
    ELSE <<>>

MarkerProtos(variant, marker) ==
    (IF variant = "junk"
     THEN <<Proto("text", STEP \o <<"s">>, <<>>)>> ELSE <<>>)
    \o (IF marker.kind = "absent" THEN <<>>
        ELSE <<Proto(marker.kind, STEP, <<>>)>>)

\* image.layers: item i has ID i, its j-th member has ID 10 * i + j
BuildLayers(S, variant, members, marker) ==
    LET groups == [i \in 1..Cardinality(S) |->
                      StepGroup(Descending(S)[i], members)]
        protos == MarkerProtos(variant, marker) \o groups
                  \o Extras(S, variant, members)
    IN  [i \in 1..Len(protos) |->
            [ID       |-> i,
             kind     |-> protos[i].kind,
             name     |-> protos[i].name,
             children |-> [j \in 1..Len(protos[i].kids) |->
                              [ID   |-> 10 * i + j,
                               kind |-> "layer",
                               name |-> protos[i].kids[j]]]]]

TopIDs(image) == {image[i].ID : i \in 1..Len(image)}
MemberIDs(image) ==
    UNION {{image[i].children[j].ID : j \in 1..Len(image[i].children)}
           : i \in 1..Len(image)}
TextIDs(image) == {image[i].ID : i \in {j \in 1..Len(image) :
                                           image[j].kind = "text"}}

\* the mutable state of an image whose groups all start with visibility v0
\* and opacity o0 and whose member layers all start with visibility h0
InitialState(image, marker, v0, o0, h0) ==
    [text       |-> [id \in TextIDs(image) |-> marker.text],
     visible    |-> [id \in TopIDs(image) \cup MemberIDs(image) |->
                        IF id \in MemberIDs(image) THEN h0 ELSE v0],
     opacity    |-> [id \in TopIDs(image) |-> o0],
     fill       |-> [id \in MemberIDs(image) |-> "unfilled"],
     foreground |-> "#000000"]

State == [text |-> text, visible |-> visible, opacity |-> opacity,
          fill |-> fill, foreground |-> foreground]

\* gimp.Item.from_id
from_id(image, id) ==
    image[CHOOSE i \in 1..Len(image) : image[i].ID = id]

gimp_item_is_group(item) == item.kind = "group"
gimp_item_is_text_layer(item) == item.kind = "text"
\* group layers and text layers are layers too
gimp_item_is_layer(item) == item.kind \in {"layer", "group", "text"}

----------------------------------------------------------------------------
\* extract_relevant_groups

keys(d) == [i \in 1..Len(d) |-> d[i][1]]
HasKey(d, k) == \E i \in 1..Len(d) : d[i][1] = k

\* the mutant: keeps the value a key already has
DictSet_first(d, k, v) ==
    IF HasKey(d, k) THEN d ELSE Append(d, <<k, v>>)

\* d[k] = v
DictSet(d, k, v) ==
    IF HasKey(d, k)
    THEN [i \in 1..Len(d) |-> IF d[i][1] = k THEN <<k, v>> ELSE d[i]]
    ELSE Append(d, <<k, v>>)

\* name.index("#", 1) as a position counted from 1; 0 when it raises
IndexOfHash(name) ==
    IF \E i \in 2..Len(name) : name[i] = "#"
    THEN CHOOSE i \in 2..Len(name) :
            name[i] = "#" /\ \A j \in 2..(i - 1) : name[j] # "#"
    ELSE 0

\* the mutant: does not ask whether the layer is a group
LabelOf_anykind(layer) ==
    LET end_index == IndexOfHash(layer.name)
    IN  IF ~startswith(layer.name, <<"#">>) THEN <<>>
        ELSE IF end_index = 0 THEN <<>>
        ELSE int(SubSeq(layer.name, 2, end_index - 1))

\* <<label>> of a layer that counts as a step group, <<>> when it is skipped
LabelOf(layer) ==
    LET end_index == IndexOfHash(layer.name)
    IN  IF ~gimp_item_is_group(layer) THEN <<>>
        ELSE IF ~startswith(layer.name, <<"#">>) THEN <<>>
        ELSE IF end_index = 0 THEN <<>>
        ELSE int(SubSeq(layer.name, 2, end_index - 1))

RECURSIVE ExtractLoop(_, _)
ExtractLoop(ls, relevant_groups) ==
    IF ls = <<>> THEN relevant_groups
    ELSE LET label == LabelOf(Head(ls))
         IN  ExtractLoop(Tail(ls),
                IF label = <<>> THEN relevant_groups
                ELSE DictSet(relevant_groups, label[1], Head(ls).ID))

extract_relevant_groups(image) == ExtractLoop(image, <<>>)

----------------------------------------------------------------------------
\* get_member_layer: <<ID>> of the first match, <<>> for None

RECURSIVE FirstMember(_, _)
FirstMember(members, prefix) ==
    IF members = <<>> THEN <<>>
    ELSE IF gimp_item_is_layer(Head(members))
            /\ startswith(Head(members).name, prefix)
         THEN <<Head(members).ID>>
    ELSE FirstMember(Tail(members), prefix)

get_member_layer(group_layer, prefix) ==
    FirstMember(group_layer.children, prefix)

----------------------------------------------------------------------------
\* update_visibility

B2I(b) == IF b THEN 1 ELSE 0

max4(a, b, c, d) == Max({a, b, c, d})
min2(a, b) == IF a <= b THEN a ELSE b

\* the mutant: counts the step, its second and its third from 2
Rank_shifted(label, step, second_from_top, third_from_top) ==
    max4(0,
         2 * B2I(label = step),
         3 * B2I(<<label>> = second_from_top),
         4 * B2I(<<label>> = third_from_top))

\* max(0, 1 * (label == step), 2 * (label == second_from_top),
\*     3 * (label == third_from_top))
Rank(label, step, second_from_top, third_from_top) ==
    max4(0,
         1 * B2I(label = step),
         2 * B2I(<<label>> = second_from_top),
         3 * B2I(<<label>> = third_from_top))

\* the index into FADING_COLORS, counted from 0
ColorIndex(label, step, second_from_top, third_from_top) ==
    min2(Len(FADING_COLORS),
         Rank(label, step, second_from_top, third_from_top))

\* the mutant: hides the group and resets its opacity
HideGroup_reset(s, group_id) ==
    [s EXCEPT !.visible[group_id] = FALSE, !.opacity[group_id] = 100]

\* group_layer.visible = False
HideGroup(s, group_id) ==
    [s EXCEPT !.visible[group_id] = FALSE]

Result(s, r) == [state |-> s, raised |-> r]

\* the mutant: shows the group without setting its opacity
ShowGroup_faded(s, group_id, label, step) ==
    [s EXCEPT !.visible[group_id] = TRUE]

\* the mutant: sets the opacity and leaves the visibility as it was
ShowGroup_hidden(s, group_id, label, step) ==
    [s EXCEPT !.opacity[group_id] =
                  IF label = step THEN TOPMOST_OPACITY ELSE 100]

\* group_layer.visible = True; gimp_layer_set_opacity(group_layer, ...)
ShowGroup(s, group_id, label, step) ==
    [s EXCEPT !.visible[group_id] = TRUE,
              !.opacity[group_id] =
                  IF label = step THEN TOPMOST_OPACITY ELSE 100]

\* the mutant: flips the hint of the current step instead of showing it
ShowHint_toggle(s, hint_layer, label, step) ==
    IF hint_layer # <<>>
    THEN [s EXCEPT !.visible[hint_layer[1]] =
                       (label = step) /\ ~s.visible[hint_layer[1]]]
    ELSE s

\* the mutant: shows the hint of every visible group
ShowHint_shown(s, hint_layer, label, step) ==
    IF hint_layer # <<>>
    THEN [s EXCEPT !.visible[hint_layer[1]] = TRUE]
    ELSE s

\* if hint_layer: hint_layer.visible = (label == step)
ShowHint(s, hint_layer, label, step) ==
    IF hint_layer # <<>>
    THEN [s EXCEPT !.visible[hint_layer[1]] = (label = step)]
    ELSE s

\* the body of the loop for one (label, group_id) of groups.items()
UpdateGroup(s, image, label, group_id, step, second_from_top, third_from_top) ==
    LET group_layer == from_id(image, group_id)
        hint_layer  == get_member_layer(group_layer, HINT)
        color_layer == get_member_layer(group_layer, COLOR)
        index       == ColorIndex(label, step, second_from_top,
                                  third_from_top)
        hinted == ShowHint(ShowGroup(s, group_id, label, step),
                           hint_layer, label, step)
    IN  IF label > step
        THEN Result(HideGroup(s, group_id), "")
        ELSE IF color_layer = <<>> THEN Result(hinted, "")
        ELSE IF index >= Len(FADING_COLORS)
             THEN Result(hinted, "IndexError")
        ELSE Result([hinted EXCEPT
                        !.foreground = FADING_COLORS[index + 1],
                        !.fill[color_layer[1]] = FADING_COLORS[index + 1]],
                    "")

\* for label, group_id in groups.items()
RECURSIVE UpdateLoop(_, _, _, _, _, _)
UpdateLoop(s, image, items, step, second_from_top, third_from_top) ==
    IF items = <<>> THEN Result(s, "")
    ELSE LET r == UpdateGroup(s, image, Head(items)[1], Head(items)[2],
                              step, second_from_top, third_from_top)
         IN  IF r.raised # "" THEN r
             ELSE UpdateLoop(r.state, image, Tail(items), step,
                             second_from_top, third_from_top)

\* the mutant: uses the saturated values of adjacent_label as they come
update_visibility_raw(s, image, groups, step) ==
    LET second == adjacent_label(keys(groups), step, FALSE)
        third  == adjacent_label(keys(groups), second[1], FALSE)
    IN  IF second = <<>> THEN Result(s, "IndexError")
        ELSE UpdateLoop(s, image, groups, step, second, third)

\* second_from_top and third_from_top as the loop uses them, <<>> for None;
\* raised tells the IndexError of adjacent_label on an empty label list
Predecessors(groups, step) ==
    LET second == adjacent_label(keys(groups), step, FALSE)
        third  == adjacent_label(keys(groups), second[1], FALSE)
    IN  IF second = <<>>
        THEN [raised |-> "IndexError",
              second_from_top |-> <<>>, third_from_top |-> <<>>]
        ELSE [raised |-> "",
              second_from_top |-> IF second = <<step>> THEN <<>> ELSE second,
              third_from_top  |-> IF third = second THEN <<>> ELSE third]

update_visibility(s, image, groups, step) ==
    LET p == Predecessors(groups, step)
    IN  IF p.raised # "" THEN Result(s, p.raised)
        ELSE UpdateLoop(s, image, groups, step, p.second_from_top,
                        p.third_from_top)

----------------------------------------------------------------------------
\* update_step

\* <<ID>> of the first top-level text layer named "step", <<>> for None
RECURSIVE FindStepLayer(_)
FindStepLayer(ls) ==
    IF ls = <<>> THEN <<>>
    ELSE IF gimp_item_is_text_layer(Head(ls)) /\ Head(ls).name = STEP
         THEN <<Head(ls).ID>>
    ELSE FindStepLayer(Tail(ls))

\* the mutant: a marker text that is no integer counts as step 0
update_step_default(s, image, dir) ==
    LET step_layer == FindStepLayer(image)
        got        == s.text[step_layer[1]]
        step       == IF got = NoneText \/ int(got) = <<>> THEN <<0>>
                      ELSE int(got)
        groups     == extract_relevant_groups(image)
        new_step   == adjacent_label(keys(groups), step[1], dir)
    IN  IF step_layer = <<>> THEN Result(s, "ValueError: not found")
        ELSE IF new_step = <<>> THEN Result(s, "IndexError")
        ELSE update_visibility(
                 [s EXCEPT !.text[step_layer[1]] = str(new_step[1])],
                 image, groups, new_step[1])

\* the mutant: hands the old step to update_visibility
update_step_oldview(s, image, dir) ==
    LET step_layer == FindStepLayer(image)
        got        == s.text[step_layer[1]]
        step       == int(got)
        groups     == extract_relevant_groups(image)
        new_step   == adjacent_label(keys(groups), step[1], dir)
    IN  IF step_layer = <<>> THEN Result(s, "ValueError: not found")
        ELSE IF got = NoneText THEN Result(s, "TypeError")
        ELSE IF step = <<>> THEN Result(s, "ValueError: no integer")
        ELSE IF new_step = <<>> THEN Result(s, "IndexError")
        ELSE update_visibility(
                 [s EXCEPT !.text[step_layer[1]] = str(new_step[1])],
                 image, groups, step[1])

\* the mutant: leaves the old step in the marker
update_step_stale(s, image, dir) ==
    LET step_layer == FindStepLayer(image)
        got        == s.text[step_layer[1]]
        step       == int(got)
        groups     == extract_relevant_groups(image)
        new_step   == adjacent_label(keys(groups), step[1], dir)
    IN  IF step_layer = <<>> THEN Result(s, "ValueError: not found")
        ELSE IF got = NoneText THEN Result(s, "TypeError")
        ELSE IF step = <<>> THEN Result(s, "ValueError: no integer")
        ELSE IF new_step = <<>> THEN Result(s, "IndexError")
        ELSE update_visibility(
                 [s EXCEPT !.text[step_layer[1]] = str(step[1])],
                 image, groups, new_step[1])

update_step(s, image, dir) ==
    LET step_layer == FindStepLayer(image)
        got        == s.text[step_layer[1]]
        step       == int(got)
        groups     == extract_relevant_groups(image)
        new_step   == adjacent_label(keys(groups), step[1], dir)
    IN  IF step_layer = <<>> THEN Result(s, "ValueError: not found")
        ELSE IF got = NoneText THEN Result(s, "TypeError")
        ELSE IF step = <<>> THEN Result(s, "ValueError: no integer")
        ELSE IF new_step = <<>> THEN Result(s, "IndexError")
        ELSE update_visibility(
                 [s EXCEPT !.text[step_layer[1]] = str(new_step[1])],
                 image, groups, new_step[1])

----------------------------------------------------------------------------
\* The operations

\* how many times in a row the menu entry op has completed, this time
\* included, counted up to MaxLabel by the specification that counts
Run(op, r) ==
    IF run = <<>> THEN <<>>
    ELSE IF r.raised # "" THEN <<0>>
    ELSE IF hist # <<>> /\ hist[Len(hist)].op = op
         THEN <<min2(run[1] + 1, MaxLabel)>>
    ELSE <<1>>

\* the last two operations
Remember(op, step, r) ==
    /\ hist' = (IF Len(hist) = 2 THEN Tail(hist) ELSE hist)
               \o <<[op |-> op, step |-> step, pre |-> State,
                     raised |-> r.raised]>>
    /\ run' = Run(op, r)

Store(r) ==
    /\ text' = r.state.text
    /\ visible' = r.state.visible
    /\ opacity' = r.state.opacity
    /\ fill' = r.state.fill
    /\ foreground' = r.state.foreground
    /\ raised' = r.raised

\* menu entry "Aufbauschritt vor"; gimp_displays_flush changes no state
increase_step ==
    LET r == update_step(State, layers, TRUE)
    IN  /\ Store(r)
        /\ Remember("increase_step", 0, r)
        /\ UNCHANGED <<layers, twin, callVars>>

\* menu entry "Aufbauschritt zurueck"
decrease_step ==
    LET r == update_step(State, layers, FALSE)
    IN  /\ Store(r)
        /\ Remember("decrease_step", 0, r)
        /\ UNCHANGED <<layers, twin, callVars>>

\* update_visibility called on its own, with the image's label map
CallUpdateVisibility ==
    /\ Len(hist) < MaxCalls
    /\ LET groups == extract_relevant_groups(layers)
       IN  \E step \in StepValues :
        LET r == update_visibility(State, layers, groups, step)
        IN  /\ Store(r)
            /\ hist' = Append(hist, [op |-> "update_visibility",
                                     step |-> step, pre |-> State,
                                     raised |-> r.raised])
            /\ UNCHANGED <<layers, twin, run, callVars>>

\* the two menu entries on the second copy of the image
TwinStep(dir) ==
    LET r == update_step(twin.state, layers, dir)
    IN  /\ twin' = [state |-> r.state, raised |-> r.raised, acted |-> TRUE]
        /\ UNCHANGED <<layers, imageVars, raised, hist, run, callVars>>

increase_step_twin == TwinStep(TRUE)
decrease_step_twin == TwinStep(FALSE)

\* adjacent_label called on its own
CallAdjacentLabel ==
    /\ returned = <<>>
    /\ raised = ""
    /\ returned' = adjacent_label(labels, current_step, direction)
    /\ raised' = IF returned' = <<>> THEN "IndexError" ELSE ""
    /\ UNCHANGED <<layers, imageVars, hist, twin, run, labels,
                   current_step, direction>>

----------------------------------------------------------------------------
\* Initial states and specifications

\* values of the labels and of the reference handed to adjacent_label
ListValues == 1..4
References == 0..5

RECURSIVE Lists(_)
Lists(n) == IF n = 0 THEN {<<>>}
            ELSE Lists(n - 1)
                 \cup {Append(l, v) : l \in {m \in Lists(n - 1) :
                                               Len(m) = n - 1},
                                      v \in ListValues}

NoCall ==
    /\ labels = <<>>
    /\ current_step = 0
    /\ direction = FALSE
    /\ returned = <<>>

InitImage(S, variant, members, marker, v0, o0, h0) ==
    LET s == InitialState(BuildLayers(S, variant, members, marker),
                          marker, v0, o0, h0)
    IN  /\ layers = BuildLayers(S, variant, members, marker)
        /\ text = s.text
        /\ visible = s.visible
        /\ opacity = s.opacity
        /\ fill = s.fill
        /\ foreground = s.foreground
        /\ raised = ""
        /\ hist = <<>>

\* no second copy of the image
NoTwin == [state |-> <<>>, raised |-> "", acted |-> FALSE]

\* any image, before the first menu entry is used
Init ==
    /\ \E S \in SUBSET Labels, shape \in Shapes, marker \in Markers,
          p \in Presets :
          InitImage(S, shape.variant, shape.members, marker,
                    p.v0, p.o0, p.h0)
    /\ twin = NoTwin
    /\ run = <<>>
    /\ NoCall

Next == increase_step \/ decrease_step

Spec == Init /\ [][Next]_vars

\* any image with a marker that holds an integer, before the first of a row
\* of menu entries that is counted
InitRun ==
    /\ \E S \in SUBSET Labels, shape \in Shapes, m \in GoodTexts,
          p \in Presets :
          InitImage(S, shape.variant, shape.members,
                    [kind |-> "text", text |-> m], p.v0, p.o0, p.h0)
    /\ twin = NoTwin
    /\ run = <<0>>
    /\ NoCall

SpecRun == InitRun /\ [][Next]_vars

\* any image, before update_visibility is called on its own
InitUpdate ==
    /\ \E S \in SUBSET Labels, shape \in Shapes, p \in Presets :
          InitImage(S, shape.variant, shape.members,
                    [kind |-> "text", text |-> str(10)], p.v0, p.o0, p.h0)
    /\ twin = NoTwin
    /\ run = <<>>
    /\ NoCall

NextUpdate == CallUpdateVisibility

SpecUpdate == InitUpdate /\ [][NextUpdate]_vars

\* two copies of one image whose markers hold the same value and whose
\* layers start in opposite states
InitPair ==
    /\ \E S \in {L \in SUBSET Labels : Cardinality(L) >= MaxLabel - 1},
          m1 \in GoodTexts, m2 \in GoodTexts, p \in Presets, q \in Presets :
          LET marker1 == [kind |-> "text", text |-> m1]
              marker2 == [kind |-> "text", text |-> m2]
          IN  /\ int(m1) = int(m2)
              /\ p.v0 # q.v0 /\ p.h0 # q.h0
              /\ InitImage(S, "plain", "full", marker1, p.v0, p.o0, p.h0)
              /\ twin = [state  |-> InitialState(
                                      BuildLayers(S, "plain", "full",
                                                  marker2),
                                      marker2, q.v0, q.o0, q.h0),
                         raised |-> "",
                         acted  |-> FALSE]
    /\ run = <<>>
    /\ NoCall

NextPair == increase_step \/ decrease_step
            \/ increase_step_twin \/ decrease_step_twin

SpecPair == InitPair /\ [][NextPair]_vars

\* adjacent_label on its own
InitAdjacent ==
    /\ InitImage({}, "plain", "full", [kind |-> "absent", text |-> <<>>],
                 TRUE, 100, TRUE)
    /\ twin = NoTwin
    /\ run = <<>>
    /\ labels \in Lists(MaxLen)
    /\ current_step \in References
    /\ direction \in BOOLEAN
    /\ returned = <<>>

NextAdjacent == CallAdjacentLabel

SpecAdjacent == InitAdjacent /\ [][NextAdjacent]_vars

----------------------------------------------------------------------------
\* Claims about adjacent_label (under SpecAdjacent)

LabelSet == {labels[i] : i \in 1..Len(labels)}
Larger   == {l \in LabelSet : l > current_step}
Smaller  == {l \in LabelSet : l < current_step}

\* C1: adjacent_label(labels, x, next) returns the smallest label strictly
\* greater than x when there is one, and the maximum label otherwise.
C1_NextSaturates ==
    (returned # <<>> /\ direction) =>
        returned = IF Larger # {} THEN <<Min(Larger)>> ELSE <<Max(LabelSet)>>

\* next has returned at the top, where no label is larger, and the label
\* set has more than one element
C1_Witness ==
    /\ returned # <<>> /\ direction
    /\ Larger = {} /\ Cardinality(LabelSet) > 1

\* C2: adjacent_label(labels, x, previous) returns the greatest label
\* strictly smaller than x when there is one, and the minimum label
\* otherwise.
C2_PreviousSaturates ==
    (returned # <<>> /\ ~direction) =>
        returned = IF Smaller # {} THEN <<Max(Smaller)>>
                   ELSE <<Min(LabelSet)>>

C2_Witness ==
    /\ returned # <<>> /\ ~direction
    /\ Smaller = {} /\ Cardinality(LabelSet) > 1

\* C3 as stated: next returns the minimum of S if x >= max(S), and the
\* smallest element strictly greater than x otherwise.
C3_NextWraps ==
    (returned # <<>> /\ direction) =>
        returned = IF current_step >= Max(LabelSet) THEN <<Min(LabelSet)>>
                   ELSE <<Min(Larger)>>

\* C3 amended: next returns the maximum of S if x >= max(S), and the
\* smallest element strictly greater than x otherwise.
C3_NextStaysAtMax ==
    (returned # <<>> /\ direction) =>
        /\ current_step >= Max(LabelSet) => returned = <<Max(LabelSet)>>
        /\ current_step < Max(LabelSet) =>
              /\ returned[1] \in LabelSet
              /\ returned[1] > current_step
              /\ \A l \in LabelSet : l > current_step => returned[1] <= l

\* next has returned for a reference at or above the maximum of an unsorted
\* list with several labels
C3_Witness ==
    /\ returned # <<>> /\ direction
    /\ current_step >= Max(LabelSet)
    /\ Min(LabelSet) < Max(LabelSet)
    /\ labels # sorted(labels)

\* C4 as stated: previous returns the maximum of S if x <= min(S), and the
\* largest element strictly smaller than x otherwise.
C4_PreviousWraps ==
    (returned # <<>> /\ ~direction) =>
        returned = IF current_step <= Min(LabelSet) THEN <<Max(LabelSet)>>
                   ELSE <<Max(Smaller)>>

\* C4 amended: previous returns the minimum of S if x <= min(S), and the
\* largest element strictly smaller than x otherwise.
C4_PreviousStaysAtMin ==
    (returned # <<>> /\ ~direction) =>
        /\ current_step <= Min(LabelSet) => returned = <<Min(LabelSet)>>
        /\ current_step > Min(LabelSet) =>
              /\ returned[1] \in LabelSet
              /\ returned[1] < current_step
              /\ \A l \in LabelSet : l < current_step => returned[1] >= l

C4_Witness ==
    /\ returned # <<>> /\ ~direction
    /\ current_step <= Min(LabelSet)
    /\ Min(LabelSet) < Max(LabelSet)
    /\ labels # sorted(labels)

----------------------------------------------------------------------------
\* Claims about update_visibility (under SpecUpdate)

Groups == extract_relevant_groups(layers)
GroupLabels == LET g == Groups IN {g[i][1] : i \in 1..Len(g)}
GroupIDs == LET g == Groups IN {g[i][2] : i \in 1..Len(g)}
Last == hist[Len(hist)]

\* update_visibility has just returned
Updated ==
    /\ hist # <<>>
    /\ Last.op = "update_visibility"
    /\ Last.raised = ""

HintOf(id)  == get_member_layer(from_id(layers, id), HINT)
ColorOf(id) == get_member_layer(from_id(layers, id), COLOR)

\* C5: after update_visibility(image, groups, step), every group of the
\* label map is visible if and only if its label is <= step, whatever its
\* visibility was before.
C5_VisibleUpToStep ==
    Updated =>
        LET g == Groups
        IN  \A i \in 1..Len(g) : visible[g[i][2]] = (g[i][1] <= Last.step)

\* a call has shown a group that was hidden and left one above the step
\* hidden
C5_Witness ==
    /\ Updated
    /\ \E i, j \in 1..Len(Groups) :
          /\ Groups[i][1] <= Last.step
          /\ ~Last.pre.visible[Groups[i][2]]
          /\ visible[Groups[i][2]]
          /\ Groups[j][1] > Last.step
          /\ ~visible[Groups[j][2]]

\* the labels of the map g strictly between two values
Between(g, lo, hi) == {i \in 1..Len(g) : lo < g[i][1] /\ g[i][1] < hi}

\* the palette entry the claim gives a visible group of the map g
ClaimedColor(g, label, step) ==
    IF label = step THEN FADING_COLORS[2]
    ELSE IF Cardinality(Between(g, label, step)) = 0 THEN FADING_COLORS[3]
    ELSE IF Cardinality(Between(g, label, step)) = 1 THEN FADING_COLORS[4]
    ELSE FADING_COLORS[1]

\* C6: after update_visibility with a step that is a label of the map, of
\* the groups with a colour member the one at the step is filled with
\* palette[1], the nearest below with palette[2], the second nearest below
\* with palette[3] and every other visible group with palette[0].
C6_FillByRecency ==
    Updated =>
        LET g == Groups
        IN  (\E k \in 1..Len(g) : g[k][1] = Last.step) =>
            \A i \in 1..Len(g) :
                (g[i][1] <= Last.step /\ ColorOf(g[i][2]) # <<>>) =>
                    fill[ColorOf(g[i][2])[1]]
                        = ClaimedColor(g, g[i][1], Last.step)

\* a call at a label has filled four groups, one with each palette entry
C6_Witness ==
    /\ Updated
    /\ Last.step \in GroupLabels
    /\ \A c \in 1..4 :
          \E i \in 1..Len(Groups) :
              /\ ColorOf(Groups[i][2]) # <<>>
              /\ Groups[i][1] <= Last.step
              /\ fill[ColorOf(Groups[i][2])[1]] = FADING_COLORS[c]

\* C7: update_visibility is idempotent: a second call with the same label
\* map and step leaves every group's visibility and opacity, every hint's
\* visibility and every colour member's fill as the first call left them.
C7_Idempotent ==
    (/\ Len(hist) >= 2
     /\ Updated
     /\ hist[Len(hist) - 1].op = "update_visibility"
     /\ hist[Len(hist) - 1].raised = ""
     /\ hist[Len(hist) - 1].step = Last.step) =>
        /\ visible = Last.pre.visible
        /\ opacity = Last.pre.opacity
        /\ fill = Last.pre.fill

\* the same call was made twice, and the first one changed visibilities,
\* opacities and fills
C7_Witness ==
    /\ Len(hist) = 2
    /\ Updated
    /\ hist[1].op = "update_visibility" /\ hist[1].raised = ""
    /\ hist[1].step = hist[2].step
    /\ hist[1].pre.visible # hist[2].pre.visible
    /\ hist[1].pre.opacity # hist[2].pre.opacity
    /\ hist[1].pre.fill # hist[2].pre.fill

----------------------------------------------------------------------------
\* Claims about the menu entries

\* the step marker: <<ID>> of the text layer update_step reads and writes
Marker == FindStepLayer(layers)

\* the value of the step marker in a state of the image
MarkerValue(s) == IF Marker = <<>> \/ s.text[Marker[1]] = NoneText
                  THEN <<>> ELSE int(s.text[Marker[1]])

\* a menu entry has completed on each of the two copies of the image and
\* both step markers hold the same value
SameStep ==
    /\ hist # <<>> /\ Last.raised = ""
    /\ twin.acted /\ twin.raised = ""
    /\ MarkerValue(State) = MarkerValue(twin.state)

\* C8 as stated: two histories that end with the same label set and the
\* same step marker value leave every step group with the same visibility
\* and opacity and every hint member with the same visibility.
C8_StateFromStepAlone ==
    SameStep =>
        \A id \in GroupIDs :
                /\ visible[id] = twin.state.visible[id]
                /\ opacity[id] = twin.state.opacity[id]
                /\ HintOf(id) # <<>> =>
                      visible[HintOf(id)[1]]
                          = twin.state.visible[HintOf(id)[1]]

\* C8 amended: two histories that end with the same label set and the same
\* step marker value leave every step group with the same visibility, and
\* every visible step group with the same opacity and its hint member with
\* the same visibility.
C8_ShownStateFromStepAlone ==
    SameStep =>
        \A id \in GroupIDs :
                /\ visible[id] = twin.state.visible[id]
                /\ visible[id] =>
                      /\ opacity[id] = twin.state.opacity[id]
                      /\ HintOf(id) # <<>> =>
                            visible[HintOf(id)[1]]
                                = twin.state.visible[HintOf(id)[1]]

\* the two copies started from different opacities and hint visibilities,
\* completed a menu entry each, and show the same step
C8_Witness ==
    /\ SameStep
    /\ \E i \in 1..Len(Groups) :
          /\ visible[Groups[i][2]]
          /\ HintOf(Groups[i][2]) # <<>>
          /\ hist[1].pre.opacity[Groups[i][2]] = 50
          /\ hist[1].pre.visible[HintOf(Groups[i][2])[1]]
    /\ \E j \in 1..Len(Groups) : ~visible[Groups[j][2]]

\* what an image shows of its step groups: which are visible, and of the
\* visible ones the opacity, the hint's visibility and the colour's fill
Displayed(s) ==
    [id \in GroupIDs |->
            IF ~s.visible[id] THEN <<FALSE>>
            ELSE <<TRUE, s.opacity[id],
                   IF HintOf(id) = <<>> THEN <<>>
                   ELSE <<s.visible[HintOf(id)[1]]>>,
                   IF ColorOf(id) = <<>> THEN <<>>
                   ELSE <<s.fill[ColorOf(id)[1]]>> >>]

\* increase_step and then decrease_step have completed, starting at a
\* marker value that is a label with a larger label above it
RoundTrip ==
    /\ Len(hist) = 2
    /\ hist[1].op = "increase_step" /\ hist[1].raised = ""
    /\ hist[2].op = "decrease_step" /\ hist[2].raised = ""
    /\ MarkerValue(hist[1].pre) # <<>>
    /\ LET ls == GroupLabels
           s  == MarkerValue(hist[1].pre)[1]
       IN  s \in ls /\ \E l \in ls : l > s

\* C9: from a marker value s that is a label with a larger label above it,
\* advance followed by retreat leaves the marker at s and the image showing
\* what update_visibility at s shows.
C9_RoundTrip ==
    RoundTrip =>
        LET s == MarkerValue(hist[1].pre)[1]
        IN  /\ text[Marker[1]] = str(s)
            /\ Displayed(State)
                 = Displayed(update_visibility(hist[1].pre, layers,
                                               Groups, s).state)

\* a round trip from a label in the middle of three or more, in an image
\* whose marker was not written as str() writes it
C9_Witness ==
    /\ RoundTrip
    /\ hist[1].pre.text[Marker[1]] # str(MarkerValue(hist[1].pre)[1])
    /\ \E l \in GroupLabels : l < MarkerValue(hist[1].pre)[1]
    /\ hist[1].pre.visible # visible

\* C10: with no top-level text layer named "step", or with a text that is
\* no integer, update_step ends in an error and has changed neither the
\* marker's text nor any layer's visibility, opacity or fill.
C10_ErrorBeforeMutation ==
    (/\ hist # <<>>
     /\ Last.op \in {"increase_step", "decrease_step"}
     /\ MarkerValue(Last.pre) = <<>>) =>
        /\ Last.raised # ""
        /\ raised = Last.raised
        /\ State = Last.pre

\* a menu entry has failed on a marker without an integer, in an image
\* with hidden step groups below and above 20
C10_Witness ==
    /\ hist # <<>>
    /\ Last.raised = "ValueError: no integer"
    /\ \E l \in GroupLabels : l < 20
    /\ \E l \in GroupLabels : l > 20
    /\ \A i \in 1..Len(Groups) : ~visible[Groups[i][2]]

\* a menu entry has just ended, with or without an error
Stepped ==
    /\ hist # <<>>
    /\ Last.op \in {"increase_step", "decrease_step"}

\* C11: with no step group in the image, adjacent_label raises for both
\* directions instead of returning a value, and a menu entry ends in that
\* error with the marker's text and every layer's state unchanged.
C11_EmptyLabelSetFails ==
    (Stepped /\ MarkerValue(Last.pre) # <<>> /\ Groups = <<>>) =>
        /\ adjacent_label(keys(Groups), MarkerValue(Last.pre)[1], TRUE) = <<>>
        /\ adjacent_label(keys(Groups), MarkerValue(Last.pre)[1], FALSE) = <<>>
        /\ raised = "IndexError"
        /\ State = Last.pre

\* a menu entry has failed on an image with an integer in its marker and
\* with groups of which none is a step group
C11_Witness ==
    /\ Stepped
    /\ raised = "IndexError"
    /\ MarkerValue(State) # <<>>
    /\ \E i \in 1..Len(layers) : gimp_item_is_group(layers[i])

\* a menu entry has just completed without an error
Completed == Stepped /\ Last.raised = ""

\* the label next to x in the set ls, above it (up) or below it, saturating
Neighbour(ls, x, up) ==
    IF up
    THEN IF \E l \in ls : l > x THEN Min({l \in ls : l > x}) ELSE Max(ls)
    ELSE IF \E l \in ls : l < x THEN Max({l \in ls : l < x}) ELSE Min(ls)

\* C12: a successful update_step writes adjacent(labels, old marker value,
\* direction) into the marker and updates the visibility with that new
\* value: the visible groups of the label map are those with a label <= the
\* value now in the marker.
C12_StepThenUpdate ==
    Completed =>
        LET g   == Groups
            old == MarkerValue(Last.pre)[1]
            new == Neighbour({g[i][1] : i \in 1..Len(g)}, old,
                             Last.op = "increase_step")
        IN  /\ text[Marker[1]] = str(new)
            /\ \A i \in 1..Len(g) : visible[g[i][2]] = (g[i][1] <= new)

\* a menu entry has moved the marker to another value and has changed the
\* visibility of a group
C12_Witness ==
    /\ Completed
    /\ MarkerValue(Last.pre) # MarkerValue(State)
    /\ Last.pre.visible # visible
    /\ \E i \in 1..Len(Groups) : ~Last.pre.visible[Groups[i][2]]
    /\ \E i \in 1..Len(Groups) : ~visible[Groups[i][2]]

----------------------------------------------------------------------------
\* Claims about extract_relevant_groups

\* the integer a top-level item encodes as a group named "#<integer>#...":
\* a set with that integer, or the empty set
Encoded(layer) ==
    IF layer.kind = "group" /\ layer.name # <<>> /\ layer.name[1] = "#"
    THEN {int(SubSeq(layer.name, 2, e - 1))[1] :
            e \in {c \in 2..Len(layer.name) :
                     /\ layer.name[c] = "#"
                     /\ \A j \in 2..(c - 1) : layer.name[j] # "#"
                     /\ int(SubSeq(layer.name, 2, c - 1)) # <<>>}}
    ELSE {}

\* C13: the keys of the map of extract_relevant_groups are exactly the
\* integers encoded by top-level groups named "#<integer>#...", every value
\* is such a group (never a layer that is no group, a name without a leading
\* or a second "#", or a text that is no integer), and skipping the other
\* items raises no error.
C13_KeysAreEncodedLabels ==
    LET g == Groups
    IN  /\ {g[i][1] : i \in 1..Len(g)}
             = UNION {Encoded(layers[k]) : k \in 1..Len(layers)}
        /\ \A i \in 1..Len(g) : g[i][1] \in Encoded(from_id(layers, g[i][2]))
        /\ (Stepped /\ MarkerValue(Last.pre) # <<>> /\ g # <<>>) =>
              raised = ""

\* a menu entry has completed on an image that holds a layer named like a
\* step group, a group with a text that is no integer, a group without a
\* second "#" and a group without a leading "#"
C13_Witness ==
    /\ Completed
    /\ \E k \in 1..Len(layers) :
          /\ ~gimp_item_is_group(layers[k])
          /\ startswith(layers[k].name, <<"#">>)
    /\ \E k \in 1..Len(layers) :
          /\ gimp_item_is_group(layers[k])
          /\ startswith(layers[k].name, <<"#">>)
          /\ IndexOfHash(layers[k].name) # 0
          /\ Encoded(layers[k]) = {}
    /\ \E k \in 1..Len(layers) :
          /\ gimp_item_is_group(layers[k])
          /\ startswith(layers[k].name, <<"#">>)
          /\ IndexOfHash(layers[k].name) = 0
    /\ \E k \in 1..Len(layers) :
          /\ gimp_item_is_group(layers[k])
          /\ ~startswith(layers[k].name, <<"#">>)

\* the top-level groups that encode a label and are not in the label map
Shadowed ==
    {k \in 1..Len(layers) :
        Encoded(layers[k]) # {} /\ layers[k].ID \notin GroupIDs}

\* the state of a top-level item and of its members
ItemState(s, item) ==
    <<s.visible[item.ID], s.opacity[item.ID],
      [j \in 1..Len(item.children) |->
          <<s.visible[item.children[j].ID], s.fill[item.children[j].ID]>>]>>

\* C18: when several top-level step groups carry the same label, the map
\* holds for it the group that comes last in image.layers and no error is
\* raised; every label of the map refers to one group, and the earlier
\* groups with that label are not touched by update_visibility.
C18_LastDuplicateWins ==
    LET g   == Groups
        enc == [k \in 1..Len(layers) |-> Encoded(layers[k])]
        ids == {g[i][2] : i \in 1..Len(g)}
    IN  /\ \A i, j \in 1..Len(g) : g[i][1] = g[j][1] => i = j
        /\ \A i \in 1..Len(g) :
              g[i][2] = layers[Max({k \in 1..Len(layers) :
                                      g[i][1] \in enc[k]})].ID
        /\ (Stepped /\ MarkerValue(Last.pre) # <<>> /\ g # <<>>) =>
              /\ Last.raised = ""
              /\ \A k \in 1..Len(layers) :
                    (enc[k] # {} /\ layers[k].ID \notin ids) =>
                        ItemState(State, layers[k])
                            = ItemState(Last.pre, layers[k])

\* a menu entry has completed on an image with two groups of one label, and
\* has shown the later one while the earlier one stays hidden
C18_Witness ==
    /\ Completed
    /\ \E k \in Shadowed :
          /\ ~visible[layers[k].ID]
          /\ \E i \in 1..Len(Groups) :
                /\ Groups[i][1] \in Encoded(layers[k])
                /\ visible[Groups[i][2]]
                /\ Groups[i][2] > layers[k].ID

----------------------------------------------------------------------------
\* More claims about update_visibility (under SpecUpdate)

\* update_visibility has just been called, with or without an error
Called ==
    /\ hist # <<>>
    /\ Last.op = "update_visibility"

\* C14: after update_visibility, of the visible groups of the label map
\* (label <= step) that have a hint member, the hint is visible if and only
\* if the group's label equals the step; so at most one hint of a visible
\* group is shown.
C14_HintOnlyAtStep ==
    Updated =>
        LET g == Groups
            h == [i \in 1..Len(g) |-> HintOf(g[i][2])]
            shown == {i \in 1..Len(g) :
                        visible[g[i][2]] /\ h[i] # <<>> /\ visible[h[i][1]]}
        IN  /\ \A i \in 1..Len(g) :
                  (g[i][1] <= Last.step /\ h[i] # <<>>) =>
                      visible[h[i][1]] = (g[i][1] = Last.step)
            /\ Cardinality(shown) <= 1

\* a call has shown the hint of the group at the step and hidden the hint,
\* visible before, of a group below the step
C14_Witness ==
    /\ Updated
    /\ \E i, j \in 1..Len(Groups) :
          /\ Groups[i][1] = Last.step
          /\ HintOf(Groups[i][2]) # <<>>
          /\ ~Last.pre.visible[HintOf(Groups[i][2])[1]]
          /\ visible[HintOf(Groups[i][2])[1]]
          /\ Groups[j][1] < Last.step
          /\ HintOf(Groups[j][2]) # <<>>
          /\ Last.pre.visible[HintOf(Groups[j][2])[1]]
          /\ ~visible[HintOf(Groups[j][2])[1]]

\* C15 as stated: for every non-empty label map and every step, the second
\* from top is None unless it is a label strictly smaller than the step,
\* the third from top is None unless it is a label strictly smaller than
\* the second from top, and the third is None whenever the second is None.
C15_PredecessorsBelowStep ==
    (Called /\ Groups # <<>>) =>
        LET p == Predecessors(Groups, Last.step)
        IN  /\ p.second_from_top # <<>> =>
                  /\ p.second_from_top[1] \in GroupLabels
                  /\ p.second_from_top[1] < Last.step
            /\ p.third_from_top # <<>> =>
                  /\ p.second_from_top # <<>>
                  /\ p.third_from_top[1] \in GroupLabels
                  /\ p.third_from_top[1] < p.second_from_top[1]

\* C16: for a group of the label map whose label is greater than the step,
\* update_visibility sets the group invisible and leaves the group's
\* opacity, its hint member's visibility and its colour member's fill as
\* they were before the call.
C16_HiddenGroupKeepsRest ==
    Updated =>
        LET g == Groups
        IN  \A i \in 1..Len(g) :
                g[i][1] > Last.step =>
                    LET kids == from_id(layers, g[i][2]).children
                    IN  /\ ~visible[g[i][2]]
                        /\ opacity[g[i][2]] = Last.pre.opacity[g[i][2]]
                        /\ \A j \in 1..Len(kids) :
                              /\ visible[kids[j].ID]
                                    = Last.pre.visible[kids[j].ID]
                              /\ fill[kids[j].ID] = Last.pre.fill[kids[j].ID]

\* a call has hidden a group that an earlier call had shown, with its hint
\* visible and its colour member filled
C16_Witness ==
    /\ Updated
    /\ \E i \in 1..Len(Groups) :
          /\ Groups[i][1] > Last.step
          /\ Last.pre.visible[Groups[i][2]]
          /\ ~visible[Groups[i][2]]
          /\ HintOf(Groups[i][2]) # <<>>
          /\ visible[HintOf(Groups[i][2])[1]]
          /\ ColorOf(Groups[i][2]) # <<>>
          /\ fill[ColorOf(Groups[i][2])[1]] # hist[1].pre.fill[ColorOf(Groups[i][2])[1]]

\* C17: for every label map and every step, the index that selects the
\* colour is one of 0, 1, 2, 3: the value handed to min is below
\* len(FADING_COLORS), so the clamp does not decide, and the palette access
\* raises no IndexError.
C17_ColorIndexInPalette ==
    (Called /\ Groups # <<>>) =>
        LET g == Groups
            p == Predecessors(g, Last.step)
        IN  /\ Last.raised = ""
            /\ \A i \in 1..Len(g) :
                  LET r == Rank(g[i][1], Last.step, p.second_from_top,
                                p.third_from_top)
                  IN  /\ r \in 0..3
                      /\ r < Len(FADING_COLORS)
                      /\ ColorIndex(g[i][1], Last.step, p.second_from_top,
                                    p.third_from_top) = r

\* a call has filled colour members with the first and with the last entry
\* of the palette
C17_Witness ==
    /\ Updated
    /\ \E i, j \in 1..Len(Groups) :
          /\ Groups[i][1] <= Last.step
          /\ Groups[j][1] <= Last.step
          /\ ColorOf(Groups[i][2]) # <<>>
          /\ ColorOf(Groups[j][2]) # <<>>
          /\ fill[ColorOf(Groups[i][2])[1]] = FADING_COLORS[1]
          /\ fill[ColorOf(Groups[j][2])[1]] = FADING_COLORS[4]
          /\ Last.pre.fill[ColorOf(Groups[j][2])[1]] # FADING_COLORS[4]

----------------------------------------------------------------------------
\* Claims about sequences of menu entries

\* C20: after a menu entry that completes without an error the step marker
\* holds a label of the label map, also when it held an integer that is no
\* label before; once a menu entry has completed, every later one completes
\* from a marker that holds a label.
C20_MarkerIsLabel ==
    Stepped =>
        /\ Last.raised = "" =>
              /\ MarkerValue(State) # <<>>
              /\ MarkerValue(State)[1] \in GroupLabels
        /\ (Len(hist) = 2 /\ hist[1].raised = "") =>
              /\ Last.raised = ""
              /\ MarkerValue(Last.pre) # <<>>
              /\ MarkerValue(Last.pre)[1] \in GroupLabels

\* two menu entries have completed, the first from a marker that held an
\* integer that is no label, and each has changed the marker
C20_Witness ==
    /\ Len(hist) = 2
    /\ hist[1].raised = "" /\ hist[2].raised = ""
    /\ MarkerValue(hist[1].pre)[1] \notin GroupLabels
    /\ MarkerValue(hist[1].pre) # MarkerValue(hist[2].pre)
    /\ MarkerValue(hist[2].pre) # MarkerValue(State)

\* the menu entry op has just completed at least n times in a row
Repeated(op, n) ==
    /\ Completed
    /\ Last.op = op
    /\ run # <<>>
    /\ run[1] >= n

====
